---- MODULE Spec2Model ----
(***************************************************************************)
(* pick_shards.py: split the contigs declared in a VCF header into         *)
(* nshards shards of evenly spaced genomic intervals.                      *)
(*                                                                         *)
(* The state is the script's module-level variables after the header has   *)
(* been read (the list `contigs`, the dict `length`, the integer           *)
(* `nshards`), the position of the interpreter in the script (pc) and the  *)
(* lines printed so far (out).  Python integers are unbounded, so no       *)
(* width is modelled.                                                      *)
(***************************************************************************)
EXTENDS Integers, Sequences, FiniteSets, TLC

\* ---------------------------------------------------------------- bounds
MaxContigs == 3      \* number of ##contig= lines in the header
MaxLen     == 4      \* largest declared contig length
MaxShards  == 5      \* largest requested number of shards
MaxNeg     == 2      \* most negative requested number of shards is -MaxNeg

\* Contig identifiers that may appear in ##contig=<ID=...> lines.
ContigNames == {"chr1", "chr2", "chr3"}

\* A closing step moves the cursor by at least one base whenever left >= 0,
\* so a walk with nshards >= 1 prints at most one line per base plus one per
\* contig.  A walk with nshards < 0 never stops printing; it is observed
\* for this many lines.
MaxPrinted == MaxContigs * (MaxLen + 1) + 1

VARIABLES nshards, contigs, length, pc, err, total_length, shard_length,
          left, shard_index, total_sofar, s, ci, start, out

vars == <<nshards, contigs, length, pc, err, total_length, shard_length,
          left, shard_index, total_sofar, s, ci, start, out>>

\* ------------------------------------------------------------- helpers
RECURSIVE SeqSum(_)
SeqSum(q) == IF q = <<>> THEN 0 ELSE Head(q) + SeqSum(Tail(q))

RECURSIVE SetSum(_, _)
\* sum(length[k] for k in length): one term per key of the dict
SetSum(f, K) ==
  IF K = {} THEN 0
  ELSE LET k == CHOOSE x \in K : TRUE IN f[k] + SetSum(f, K \ {k})

\* Python 2 `/` on two ints: floor division; b # 0
PyFloorDiv(a, b) ==
  IF b > 0 THEN (IF a >= 0 THEN a \div b ELSE -(((-a) + b - 1) \div b))
  ELSE (IF a <= 0 THEN (-a) \div (-b) ELSE -((a + (-b) - 1) \div (-b)))

\* '%s\t%s\t%s' % (contig, start, end): the three fields of one interval
Interval(c, b, e) == [contig |-> c, start |-> b, end |-> e]

Range(q) == {q[i] : i \in 1..Len(q)}

\* --------------------------------------------------------------- Init
\* State after the header loop (lines 49-58): `contigs` holds the IDs in
\* header order (a repeated ID is appended again), `length` holds the last
\* declared length of each ID.
Init ==
  /\ nshards \in (-MaxNeg)..MaxShards
  /\ \E n \in 0..MaxContigs : contigs \in [1..n -> ContigNames]
  /\ length \in [Range(contigs) -> 1..MaxLen]
  /\ pc = "setup"
  /\ err = "none"
  /\ total_length = 0
  /\ shard_length = 0
  /\ left = 0
  /\ shard_index = 0
  /\ total_sofar = 0
  /\ s = <<>>
  /\ ci = 0
  /\ start = 0
  /\ out = <<>>

\* ------------------------------------------------------------ actions
\* lines 60-67, nshards # 0
Setup ==
  /\ pc = "setup"
  /\ nshards # 0
  /\ total_length' = SetSum(length, DOMAIN length)
  /\ shard_length' = PyFloorDiv(total_length', nshards)
  /\ left' = shard_length'
  /\ shard_index' = 0
  /\ total_sofar' = 0
  /\ s' = <<>>
  /\ pc' = "for"
  /\ UNCHANGED <<nshards, contigs, length, err, ci, start, out>>

\* line 62 with nshards = 0: ZeroDivisionError is raised and never caught;
\* the interpreter prints a traceback and exits with status 1.
SetupDivByZero ==
  /\ pc = "setup"
  /\ nshards = 0
  /\ total_length' = SetSum(length, DOMAIN length)
  /\ pc' = "crashed"
  /\ err' = "ZeroDivisionError"
  /\ UNCHANGED <<nshards, contigs, length, shard_length, left, shard_index,
                 total_sofar, s, ci, start, out>>

\* lines 69-70: the for loop takes the next contig, start = 1
NextContig ==
  /\ pc = "for"
  /\ ci < Len(contigs)
  /\ ci' = ci + 1
  /\ start' = 1
  /\ pc' = "while"
  /\ UNCHANGED <<nshards, contigs, length, err, total_length, shard_length,
                 left, shard_index, total_sofar, s, out>>

\* line 69: the for loop is exhausted
EndFor ==
  /\ pc = "for"
  /\ ci = Len(contigs)
  /\ pc' = "flush"
  /\ UNCHANGED <<nshards, contigs, length, err, total_length, shard_length,
                 left, shard_index, total_sofar, s, ci, start, out>>

\* lines 72-77: the rest of the contig does not fill the shard
TakeRest ==
  /\ pc = "while"
  /\ LET contig == contigs[ci] IN
     /\ length[contig] - start + 1 < left
     /\ s' = Append(s, Interval(contig, start, length[contig]))
     /\ left' = left - (length[contig] - start + 1)
     /\ total_sofar' = total_sofar + (length[contig] - start + 1)
  /\ pc' = "for"
  /\ UNCHANGED <<nshards, contigs, length, err, total_length, shard_length,
                 shard_index, ci, start, out>>

\* FillShard with the cursor resumed on the shard's last base instead of
\* the base after it (start = start + left).
FillShardNoSkip ==
  /\ pc = "while"
  /\ Len(out) < MaxPrinted
  /\ LET contig == contigs[ci] IN
     /\ ~(length[contig] - start + 1 < left)
     /\ out' = Append(out, Append(s, Interval(contig, start, start + left)))
     /\ shard_index' = shard_index + 1
     /\ total_sofar' = total_sofar + left
     /\ start' = start + left
     /\ left' = IF shard_index' = nshards - 1
                THEN total_length - total_sofar'
                ELSE shard_length
     /\ s' = <<>>
  /\ pc' = "while"
  /\ UNCHANGED <<nshards, contigs, length, err, total_length, shard_length,
                 ci>>

\* lines 78-91: the shard is filled inside this contig and printed
FillShard ==
  /\ pc = "while"
  /\ Len(out) < MaxPrinted
  /\ LET contig == contigs[ci] IN
     /\ ~(length[contig] - start + 1 < left)
     /\ out' = Append(out, Append(s, Interval(contig, start, start + left)))
     /\ shard_index' = shard_index + 1
     /\ total_sofar' = total_sofar + left
     /\ start' = start + left + 1
     /\ left' = IF shard_index' = nshards - 1
                THEN total_length - total_sofar'
                ELSE shard_length
     /\ s' = <<>>
  /\ pc' = "while"
  /\ UNCHANGED <<nshards, contigs, length, err, total_length, shard_length,
                 ci>>

\* line 93: print the last shard as is, if it is not empty; the script ends
Flush ==
  /\ pc = "flush"
  /\ out' = IF s # <<>> THEN Append(out, s) ELSE out
  /\ pc' = "done"
  /\ UNCHANGED <<nshards, contigs, length, err, total_length, shard_length,
                 left, shard_index, total_sofar, s, ci, start>>

Next ==
  \/ Setup
  \/ SetupDivByZero
  \/ NextContig
  \/ EndFor
  \/ TakeRest
  \/ FillShard
  \/ Flush

Spec == Init /\ [][Next]_vars

\* The script is sequential: the interpreter always takes the next step.
FairSpec == Spec /\ WF_vars(Next)

TypeOK ==
  /\ pc \in {"setup", "for", "while", "flush", "done", "crashed"}
  /\ ci \in 0..Len(contigs)
  /\ Len(out) <= MaxPrinted

\* The observation window never cuts a walk with nshards >= 1 short.
WindowSuffices == nshards >= 1 => Len(out) < MaxPrinted

\* ------------------------------------------------- derived quantities
\* The declared genome size, as line 60 computes it.
GenomeLength == SetSum(length, DOMAIN length)

\* A valid input: at least one contig, IDs unique, lengths >= 1 (Init),
\* and 1 <= nshards <= total length.
UniqueNames == Cardinality(Range(contigs)) = Len(contigs)
ValidInput ==
  /\ contigs # <<>>
  /\ UniqueNames
  /\ 1 <= nshards
  /\ nshards <= GenomeLength

Finished == pc = "done"

RECURSIVE Flatten(_)
\* the intervals of all lines, in printing order
Flatten(lines) ==
  IF lines = <<>> THEN <<>> ELSE Head(lines) \o Flatten(Tail(lines))

Emitted == Flatten(out)

IntervalBases(iv) == iv.end - iv.start + 1

RECURSIVE ShardBases(_)
\* sum of end - start + 1 over the intervals of one shard
ShardBases(sh) ==
  IF sh = <<>> THEN 0 ELSE IntervalBases(Head(sh)) + ShardBases(Tail(sh))

\* the bases <<contig, position>> an interval names, in increasing order
BasesOf(iv) ==
  IF iv.end < iv.start THEN <<>>
  ELSE [k \in 1..(iv.end - iv.start + 1) |-> <<iv.contig, iv.start + k - 1>>]

RECURSIVE BasesOfAll(_)
BasesOfAll(ivs) ==
  IF ivs = <<>> THEN <<>> ELSE BasesOf(Head(ivs)) \o BasesOfAll(Tail(ivs))

RECURSIVE GenomeBases(_)
\* every contig of cs, in order, from position 1 to its length
GenomeBases(cs) ==
  IF cs = <<>> THEN <<>>
  ELSE BasesOf(Interval(Head(cs), 1, length[Head(cs)])) \o GenomeBases(Tail(cs))

\* position of a contig in the header (IDs unique)
IndexOf(c) == CHOOSE i \in 1..Len(contigs) : contigs[i] = c

\* ---------------------------------------------------------------- C1
\* C1: for a valid input, the intervals of all printed shards, in printing
\* order, name every base of every contig exactly once, contig by contig in
\* header order and from position 1 to the contig's length.
C1_Coverage ==
  (Finished /\ ValidInput) => BasesOfAll(Emitted) = GenomeBases(contigs)

\* ---------------------------------------------------------------- C2
\* C2: for a valid input the number of printed lines (the final flush
\* included) equals nshards.
C2_Count ==
  (Finished /\ ValidInput) => Len(out) = nshards

\* ---------------------------------------------------------------- C3
\* C3: every interval appended to a shard, by either branch, satisfies
\* 1 <= start <= end <= length of its contig, in every state of the walk.
WellFormed(iv) ==
  /\ 1 <= iv.start
  /\ iv.start <= iv.end
  /\ iv.end <= length[iv.contig]

C3_WellFormed ==
  ValidInput => \A iv \in Range(Emitted) \cup Range(s) : WellFormed(iv)

\* ---------------------------------------------------------------- C4
\* C4: for a valid input every printed shard other than the last holds
\* exactly total_length div nshards bases.
C4_EqualShare ==
  (Finished /\ ValidInput) =>
    \A i \in 1..(Len(out) - 1) : ShardBases(out[i]) = GenomeLength \div nshards

\* ---------------------------------------------------------------- C5
\* C5: for a valid input the last printed shard holds exactly
\* total_length - (total_length div nshards) * (nshards - 1) bases.
C5_LastShardAbsorbs ==
  (Finished /\ ValidInput) =>
    /\ out # <<>>
    /\ ShardBases(out[Len(out)]) =
         GenomeLength - (GenomeLength \div nshards) * (nshards - 1)

\* ---------------------------------------------------------------- C6
\* C6: for a valid input, when the walk has finished, the sum over all
\* printed shards of end - start + 1 over their intervals is total_length.
C6_TotalLength ==
  (Finished /\ ValidInput) =>
    SeqSum([i \in 1..Len(out) |-> ShardBases(out[i])]) = GenomeLength

\* a finished walk of a valid input over several contigs, with several
\* shards, one of which spans two contigs
C6_Witness ==
  /\ Finished
  /\ ValidInput
  /\ Len(contigs) >= 2
  /\ Len(out) >= 3
  /\ \E i \in 1..Len(out) : Len(out[i]) >= 2

\* ---------------------------------------------------------------- C7
\* C7: whenever nshards > total_length the run fails and nothing is ever
\* appended to a shard or printed.
C7_OverShardingRejected ==
  (contigs # <<>> /\ nshards > GenomeLength) =>
    (out = <<>> /\ s = <<>> /\ ~Finished)

\* ---------------------------------------------------------------- C8
\* C8: whenever nshards < 1 or the header declares no contig, the run fails
\* (it neither completes normally nor prints anything).
C8_InvalidRejected ==
  (nshards < 1 \/ contigs = <<>>) => (out = <<>> /\ ~Finished)

\* ---------------------------------------------------------------- C9
\* C9: for a valid input, in printing order contigs appear in header order,
\* the first interval of each contig starts at 1, and of two consecutive
\* intervals on one contig the later starts at the earlier's end + 1 and
\* has neither a smaller start nor a smaller end.
C9_Monotone ==
  (Finished /\ ValidInput) =>
    LET F == Emitted IN
    /\ \A i \in 1..Len(F) :
         (i = 1 \/ F[i - 1].contig # F[i].contig) => F[i].start = 1
    /\ \A i \in 1..(Len(F) - 1) :
         /\ IndexOf(F[i].contig) <= IndexOf(F[i + 1].contig)
         /\ F[i].contig = F[i + 1].contig =>
              /\ F[i + 1].start = F[i].end + 1
              /\ F[i + 1].start >= F[i].start
              /\ F[i + 1].end >= F[i].end

\* --------------------------------------------------------------- C10
\* C10: with nshards >= 1 the walk finishes: left is never negative, every
\* closing of a shard moves the cursor forward, and the script reaches its
\* end after the final flush.
C10_Terminates ==
  /\ [](nshards >= 1 => left >= 0)
  /\ [][(nshards >= 1 /\ pc = "while" /\ pc' = "while") => start' > start]_vars
  /\ ((nshards >= 1) ~> Finished)

\* a finished walk with nshards >= 1 that closed several shards inside one
\* contig
C10_Witness ==
  /\ Finished
  /\ nshards >= 1
  /\ \E i \in 1..(Len(out) - 1) :
       out[i][Len(out[i])].contig = out[i + 1][1].contig
  /\ shard_index >= 3
====
